---- MODULE Spec2Model ----
(***************************************************************************)
(* cargo-consolidate: the dependency merge (src/src/dependencies.rs) and   *)
(* the run of App::consolidate (src/src/main.rs).                          *)
(*                                                                         *)
(* A Rust String is a sequence of one-character strings, so that           *)
(* push_str, VersionReq::parse and to_string are computed, not assumed.    *)
(* An Option<T> is a sequence of length 0 (None) or 1 (Some).              *)
(***************************************************************************)
EXTENDS Integers, Sequences, FiniteSets, TLC

VARIABLES
    pc,               \* position of the run inside App::consolidate
    disk,             \* path -> document, the files on disk
    disk0,            \* the files as they were when the run started
    manifests,        \* member path -> dependency map, as read by read_members
    new_dependencies, \* name -> Vec<Dependency>           (main.rs:66)
    unified,          \* name -> Dependency                (main.rs:85)
    editable,         \* editable_cargo_toml, the root document in memory
    idx,              \* how many members the patch loop has written
    cur,              \* merge harness: the Dependency operated on
    prev,             \* merge harness: cur before the last operation
    arg,              \* merge harness: the argument of the last operation
    op,               \* merge harness: the last operation
    steps             \* merge harness: operations applied so far

vars == <<pc, disk, disk0, manifests, new_dependencies, unified, editable, idx,
          cur, prev, arg, op, steps>>

runVars == <<pc, disk, disk0, manifests, new_dependencies, unified, editable, idx>>
harnessVars == <<cur, prev, arg, op, steps>>

----------------------------------------------------------------------------
(* Bounds *)

\* number of workspace members of a run
NumMembers == 2

\* number of merge/simplify operations the merge harness chains
MaxSteps == 2

----------------------------------------------------------------------------
(* Strings and options *)

None == <<>>
Some(x) == <<x>>
IsSome(o) == Len(o) = 1
Unwrap(o) == o[1]

\* the literal pushed by v.push_str(", ")
Separator == <<",", " ">>

\* String::push_str twice: s, then ", ", then t
PushSeparated(s, t) == s \o Separator \o t

Digits == {"0", "1", "2", "3", "4", "5", "6", "7", "8", "9"}
WildcardChars == {"*", "x", "X"}

RECURSIVE TrimStart(_)
\* str::trim_start_matches(' ')
TrimStart(s) ==
    IF s # <<>> /\ Head(s) = " " THEN TrimStart(Tail(s)) ELSE s

RECURSIVE Join(_)
\* the comparators' renderings written one after the other, ", " between
Join(ss) ==
    IF ss = <<>> THEN <<>>
    ELSE IF Len(ss) = 1 THEN ss[1]
    ELSE ss[1] \o Separator \o Join(Tail(ss))

RECURSIVE SplitTerms(_, _)
\* the terms of a string split at every ", " (acc is the term being read)
SplitTerms(s, acc) ==
    IF s = <<>> THEN <<acc>>
    ELSE IF Len(s) >= 2 /\ SubSeq(s, 1, 2) = Separator
         THEN <<acc>> \o SplitTerms(SubSeq(s, 3, Len(s)), <<>>)
         ELSE SplitTerms(Tail(s), Append(acc, Head(s)))

Range(f) == {f[x] : x \in DOMAIN f}

----------------------------------------------------------------------------
(* semver::VersionReq, as far as dependencies.rs uses it: parse, the       *)
(* comparators vector (op, major, minor, patch, pre), to_string.           *)

\* semver's op(): the operator prefix of a comparator and the rest
ParseOp(s) ==
    IF s = <<>> THEN [op |-> "^", rest |-> s, default |-> TRUE]
    ELSE IF Head(s) = "=" THEN [op |-> "=", rest |-> Tail(s), default |-> FALSE]
    ELSE IF Head(s) = ">" THEN
        IF Len(s) >= 2 /\ s[2] = "="
        THEN [op |-> ">=", rest |-> SubSeq(s, 3, Len(s)), default |-> FALSE]
        ELSE [op |-> ">", rest |-> Tail(s), default |-> FALSE]
    ELSE IF Head(s) = "<" THEN
        IF Len(s) >= 2 /\ s[2] = "="
        THEN [op |-> "<=", rest |-> SubSeq(s, 3, Len(s)), default |-> FALSE]
        ELSE [op |-> "<", rest |-> Tail(s), default |-> FALSE]
    ELSE IF Head(s) = "~" THEN [op |-> "~", rest |-> Tail(s), default |-> FALSE]
    ELSE IF Head(s) = "^" THEN [op |-> "^", rest |-> Tail(s), default |-> FALSE]
    ELSE [op |-> "^", rest |-> s, default |-> TRUE]

RECURSIVE DigitRun(_)
\* the length of the leading run of decimal digits
DigitRun(s) ==
    IF s # <<>> /\ Head(s) \in Digits THEN 1 + DigitRun(Tail(s)) ELSE 0

DigitOrder == <<"0", "1", "2", "3", "4", "5", "6", "7", "8", "9">>
DigitValue(c) == (CHOOSE i \in DOMAIN DigitOrder : DigitOrder[i] = c) - 1

\* u64::MAX, 18446744073709551615, in decimal digits
U64Max == <<"1", "8", "4", "4", "6", "7", "4", "4", "0", "7",
            "3", "7", "0", "9", "5", "5", "1", "6", "1", "5">>

RECURSIVE DigitsGreater(_, _)
\* of two digit strings of the same length, whether the first is the greater number
DigitsGreater(d, e) ==
    IF d = <<>> THEN FALSE
    ELSE IF DigitValue(Head(d)) # DigitValue(Head(e))
         THEN DigitValue(Head(d)) > DigitValue(Head(e))
         ELSE DigitsGreater(Tail(d), Tail(e))

\* checked_mul(10) / checked_add fail: the number (no leading zero) exceeds u64::MAX
OverflowsU64(d) ==
    Len(d) > Len(U64Max) \/ (Len(d) = Len(U64Max) /\ DigitsGreater(d, U64Max))

\* semver's numeric_identifier(): digits, no leading zero, within u64
NumericIdentifier(s) ==
    LET n == DigitRun(s) IN
    IF n = 0 \/ (n > 1 /\ s[1] = "0") \/ OverflowsU64(SubSeq(s, 1, n))
    THEN [ok |-> FALSE, value |-> <<>>, rest |-> s]
    ELSE [ok |-> TRUE, value |-> SubSeq(s, 1, n), rest |-> SubSeq(s, n + 1, Len(s))]

StartsWith(s, c) == s # <<>> /\ Head(s) = c
StartsWithWildcard(s) == s # <<>> /\ Head(s) \in WildcardChars

Letters ==
    {"a", "b", "c", "d", "e", "f", "g", "h", "i", "j", "k", "l", "m",
     "n", "o", "p", "q", "r", "s", "t", "u", "v", "w", "x", "y", "z",
     "A", "B", "C", "D", "E", "F", "G", "H", "I", "J", "K", "L", "M",
     "N", "O", "P", "Q", "R", "S", "T", "U", "V", "W", "X", "Y", "Z"}

RECURSIVE IdentifierLen(_, _, _, _, _)
\* semver's identifier(): the length of the leading dot-separated identifier
\* (0 when there is none), or -1 for an empty segment or, in a pre-release, a
\* numeric segment with a leading zero.  acc is accumulated_len, seg is
\* segment_len, nondigit is segment_has_nondigit.
IdentifierLen(input, acc, seg, nondigit, isPre) ==
    LET c == IF acc + seg + 1 <= Len(input) THEN input[acc + seg + 1] ELSE "" IN
    IF c \in Letters \cup {"-"} THEN IdentifierLen(input, acc, seg + 1, TRUE, isPre)
    ELSE IF c \in Digits THEN IdentifierLen(input, acc, seg + 1, nondigit, isPre)
    ELSE IF seg = 0 THEN (IF acc = 0 /\ c # "." THEN 0 ELSE -1)
    ELSE IF isPre /\ seg > 1 /\ ~nondigit /\ input[acc + 1] = "0" THEN -1
    ELSE IF c = "." THEN IdentifierLen(input, acc + seg + 1, 0, FALSE, isPre)
    ELSE acc + seg

BadComparator == [ok |-> FALSE,
                  comp |-> [op |-> "^", major |-> <<>>, minor |-> None, patch |-> None,
                            pre |-> <<>>],
                  rest |-> <<>>]

\* a parsed numeric_identifier as the minor or patch of a comparator
NumericPart(n) ==
    [ok |-> n.ok, wild |-> FALSE, value |-> IF n.ok THEN Some(n.value) ELSE None,
     rest |-> n.rest]

\* semver's comparator(), the optional ".minor" or ".patch": absent, a wildcard,
\* or a numeric identifier
ParsePart(text) ==
    IF ~StartsWith(text, ".")
    THEN [ok |-> TRUE, wild |-> FALSE, value |-> None, rest |-> text]
    ELSE IF StartsWithWildcard(Tail(text))
    THEN [ok |-> TRUE, wild |-> TRUE, value |-> None, rest |-> Tail(Tail(text))]
    ELSE NumericPart(NumericIdentifier(Tail(text)))

\* the identifier of length n cut off the text after its marker; an error (n = -1)
\* and an empty identifier (n = 0) are both errors
IdentifierPart(text, n) ==
    IF n <= 0 THEN [ok |-> FALSE, value |-> <<>>, rest |-> text]
    ELSE [ok |-> TRUE, value |-> SubSeq(text, 1, n), rest |-> SubSeq(text, n + 1, Len(text))]

\* semver's comparator(), the optional "-pre" or "+build" after a patch number
ParseIdentifier(text, hasPatch, marker, isPre) ==
    IF hasPatch /\ StartsWith(text, marker)
    THEN IdentifierPart(Tail(text), IdentifierLen(Tail(text), 0, 0, FALSE, isPre))
    ELSE [ok |-> TRUE, value |-> <<>>, rest |-> text]

\* semver's comparator(), its end: the build metadata is dropped; the op becomes
\* Wildcard when a part is a wildcard and no op was written
ComparatorWithBuild(o, maj, minor, patch, pre, build) ==
    IF ~build.ok THEN BadComparator
    ELSE [ok |-> TRUE,
          comp |-> [op |-> IF (minor.wild \/ patch.wild) /\ o.default THEN "*" ELSE o.op,
                    major |-> maj.value, minor |-> minor.value, patch |-> patch.value,
                    pre |-> pre.value],
          rest |-> TrimStart(build.rest)]

ComparatorWithPre(o, maj, minor, patch, pre) ==
    IF ~pre.ok THEN BadComparator
    ELSE ComparatorWithBuild(o, maj, minor, patch, pre,
                             ParseIdentifier(pre.rest, IsSome(patch.value), "+", FALSE))

\* a number after a wildcard is an error
ComparatorWithPatch(o, maj, minor, patch) ==
    IF ~patch.ok \/ (minor.wild /\ IsSome(patch.value)) THEN BadComparator
    ELSE ComparatorWithPre(o, maj, minor, patch,
                           ParseIdentifier(patch.rest, IsSome(patch.value), "-", TRUE))

ComparatorWithMinor(o, maj, minor) ==
    IF ~minor.ok THEN BadComparator
    ELSE ComparatorWithPatch(o, maj, minor, ParsePart(minor.rest))

ComparatorWithMajor(o, maj) ==
    IF ~maj.ok THEN BadComparator
    ELSE ComparatorWithMinor(o, maj, ParsePart(maj.rest))

ComparatorWithOp(o) == ComparatorWithMajor(o, NumericIdentifier(TrimStart(o.rest)))

\* semver's comparator(): op, major, optional .minor, optional .patch, optional
\* -pre and +build
ParseComparator(input) == ComparatorWithOp(ParseOp(input))

\* semver's MAX_COMPARATORS
MAX_COMPARATORS == 32

RECURSIVE ParseComparators(_, _)
\* semver's version_req(): comparators separated by ',', at most MAX_COMPARATORS
\* of them (None on an error); out holds the comparators read before text, and
\* its length is the depth of the recursion
ParseComparators(text, out) ==
    LET c == ParseComparator(text) IN
    IF ~c.ok THEN None
    ELSE IF c.rest = <<>> THEN Some(Append(out, c.comp))
    ELSE IF Head(c.rest) # "," THEN None
    ELSE IF Len(out) + 1 = MAX_COMPARATORS THEN None
    ELSE ParseComparators(TrimStart(Tail(c.rest)), Append(out, c.comp))

\* VersionReq::parse: Some(comparators), or None when the string is invalid
VersionReqParse(s) ==
    LET text == TrimStart(s) IN
    IF StartsWithWildcard(text)
    THEN IF TrimStart(Tail(text)) = <<>> THEN Some(<<>>) ELSE None
    ELSE ParseComparators(text, <<>>)

\* Display for Comparator
ComparatorToString(c) ==
    (IF c.op = "*" THEN <<>>
     ELSE IF c.op = ">=" THEN <<">", "=">>
     ELSE IF c.op = "<=" THEN <<"<", "=">>
     ELSE <<c.op>>)
    \o c.major
    \o (IF IsSome(c.minor)
        THEN <<".">> \o Unwrap(c.minor)
             \o (IF IsSome(c.patch)
                 THEN <<".">> \o Unwrap(c.patch)
                      \o (IF c.pre # <<>> THEN <<"-">> \o c.pre ELSE <<>>)
                 ELSE IF c.op = "*" THEN <<".", "*">> ELSE <<>>)
        ELSE IF c.op = "*" THEN <<".", "*">> ELSE <<>>)

\* Display for VersionReq: "*" when empty, else the comparators joined by ", "
VersionReqToString(comps) ==
    IF comps = <<>> THEN <<"*">>
    ELSE Join([i \in DOMAIN comps |-> ComparatorToString(comps[i])])

----------------------------------------------------------------------------
(* cargo_toml::Dependency.  One record shape for the three variants:       *)
(*   Simple(v)      kind "Simple",    version = Some(v)                    *)
(*   Detailed(d)    kind "Detailed",  version = d.version, attrs = the     *)
(*                  non-version fields of the DependencyDetail             *)
(*   Inherited(_)   kind "Inherited"                                       *)
(* Panic is the outcome of unreachable!/expect/unimplemented!.             *)

DefaultAttrs == "default"

Simple(v) == [kind |-> "Simple", version |-> Some(v), attrs |-> DefaultAttrs]
Detailed(version, attrs) == [kind |-> "Detailed", version |-> version, attrs |-> attrs]
Inherited == [kind |-> "Inherited", version |-> None, attrs |-> DefaultAttrs]
Panic == [kind |-> "Panic", version |-> None, attrs |-> DefaultAttrs]

\* a bug a merge could have: the incoming constraint first
merge_simple_swapped(self, version) ==
    IF self.kind = "Inherited" THEN Panic
    ELSE IF IsSome(self.version)
         THEN [self EXCEPT !.version = Some(PushSeparated(version, Unwrap(self.version)))]
         ELSE self

\* DependencyExt::merge_simple
merge_simple(self, version) ==
    CASE self.kind = "Simple" ->
            Simple(PushSeparated(Unwrap(self.version), version))
      [] self.kind = "Detailed" ->
            IF IsSome(self.version)
            THEN [self EXCEPT !.version = Some(PushSeparated(Unwrap(self.version), version))]
            ELSE self
      [] OTHER -> Panic

\* a bug a merge could have: the incoming detail's attributes win
merge_detailed_overwrite(self, details) ==
    CASE self.kind = "Simple" ->
            IF IsSome(details.version)
            THEN Detailed(Some(PushSeparated(Unwrap(self.version), Unwrap(details.version))),
                          details.attrs)
            ELSE Detailed(None, details.attrs)
      [] self.kind = "Detailed" ->
            IF IsSome(self.version) /\ IsSome(details.version)
            THEN Detailed(Some(PushSeparated(Unwrap(self.version), Unwrap(details.version))),
                          details.attrs)
            ELSE IF IsSome(details.version)
            THEN Detailed(details.version, details.attrs)
            ELSE self
      [] OTHER -> Panic

\* DependencyExt::merge_detailed
merge_detailed(self, details) ==
    CASE self.kind = "Simple" ->
            IF IsSome(details.version)
            THEN \* version := version + ", " + detail_version, then swapped into details
                 Detailed(Some(PushSeparated(Unwrap(self.version), Unwrap(details.version))),
                          details.attrs)
            ELSE \* *self = Detailed(details), details.version is None
                 Detailed(None, details.attrs)
      [] self.kind = "Detailed" ->
            IF ~IsSome(self.version) /\ IsSome(details.version)
            THEN [self EXCEPT !.version = details.version]
            ELSE IF IsSome(self.version) /\ IsSome(details.version)
            THEN [self EXCEPT !.version =
                      Some(PushSeparated(Unwrap(self.version), Unwrap(details.version)))]
            ELSE self
      [] OTHER -> Panic

RECURSIVE Orders(_)
\* every order a set can be iterated in
Orders(S) ==
    IF S = {} THEN {<<>>}
    ELSE UNION {{<<x>> \o p : p \in Orders(S \ {x})} : x \in S}

\* a bug simplify could have: the comparators are kept as they are
simplify_version_req_keep(comps) == {comps}

\* VersionReqExt::simplify_version_req: the comparators collected into a HashSet
\* and back into a Vec; the HashSet's iteration order is not fixed, so the result
\* is the set of the orders it can come out in
simplify_version_req(comps) == Orders(Range(comps))

\* the version string of DependencyExt::simplify: parse (expect), simplify, to_string;
\* the set of the strings it can leave, empty when the expect panics
SimplifiedVersions(version) ==
    LET req == VersionReqParse(version) IN
    IF ~IsSome(req) THEN {}
    ELSE {VersionReqToString(c) : c \in simplify_version_req(Unwrap(req))}

\* DependencyExt::simplify: the set of the outcomes
simplify(self) ==
    CASE self.kind = "Simple" ->
            IF SimplifiedVersions(Unwrap(self.version)) = {} THEN {Panic}
            ELSE {Simple(v) : v \in SimplifiedVersions(Unwrap(self.version))}
      [] self.kind = "Detailed" ->
            IF ~IsSome(self.version) THEN {self}
            ELSE IF SimplifiedVersions(Unwrap(self.version)) = {} THEN {Panic}
            ELSE {[self EXCEPT !.version = Some(v)] :
                     v \in SimplifiedVersions(Unwrap(self.version))}
      [] OTHER -> {Panic}

----------------------------------------------------------------------------
(* Documents.  A config file is a record: whether the file exists, whether *)
(* it has a [workspace] section, whether it has the dependency table       *)
(* ([workspace.dependencies] in the root, [dependencies] in a member),     *)
(* whether that table is written inline (dependencies = { .. }) and not as *)
(* a standard table, and the table: name -> entry.  An entry is a bare     *)
(* string, or table-like with an optional version sub-field, its other     *)
(* sub-fields (attrs), and whether it says workspace = true; quoted says   *)
(* that the file writes the entry's key in quotes ("a" = ..).              *)

StrEntry(v) == [shape |-> "str", version |-> Some(v), attrs |-> DefaultAttrs,
                workspace |-> FALSE, quoted |-> FALSE]
TableEntry(version, attrs) == [shape |-> "table", version |-> version, attrs |-> attrs,
                               workspace |-> FALSE, quoted |-> FALSE]
InheritedEntry == [shape |-> "table", version |-> None, attrs |-> DefaultAttrs,
                   workspace |-> TRUE, quoted |-> FALSE]
PanicEntry == [shape |-> "panic", version |-> None, attrs |-> DefaultAttrs,
               workspace |-> FALSE, quoted |-> FALSE]

\* the entry with its key written in quotes
QuotedKey(e) == [e EXCEPT !.quoted = TRUE]

\* cargo_toml's reading of an entry into a Dependency (Manifest::from_path)
ToDependency(e) ==
    IF e.shape = "str" THEN Simple(Unwrap(e.version))
    ELSE IF e.workspace THEN Inherited
    ELSE Detailed(e.version, e.attrs)

\* manifest.dependencies of a document
ManifestDependencies(doc) ==
    IF doc.hasDeps THEN [n \in DOMAIN doc.deps |-> ToDependency(doc.deps[n])]
    ELSE <<>>

\* dependency.serialize(ValueSerializer): the value inserted into the root table
Serialize(dep) ==
    CASE dep.kind = "Simple" -> StrEntry(Unwrap(dep.version))
      [] dep.kind = "Detailed" -> TableEntry(dep.version, dep.attrs)
      [] OTHER -> InheritedEntry

----------------------------------------------------------------------------
(* App::consolidate, main.rs:56-159 *)

\* a bug the collection could have: names of the root table are not skipped
PushMemberAll(nd, manifest, workspace_dependencies) ==
    [n \in DOMAIN nd \cup DOMAIN manifest |->
        IF n \in DOMAIN manifest
        THEN IF n \in DOMAIN nd THEN Append(nd[n], manifest[n]) ELSE <<manifest[n]>>
        ELSE nd[n]]

\* the inner loop of main.rs:68-83: one member's dependencies pushed onto
\* new_dependencies, the names of the root table skipped
PushMember(nd, manifest, workspace_dependencies) ==
    LET fresh == DOMAIN manifest \ DOMAIN workspace_dependencies IN
    [n \in DOMAIN nd \cup fresh |->
        IF n \in fresh
        THEN IF n \in DOMAIN nd THEN Append(nd[n], manifest[n]) ELSE <<manifest[n]>>
        ELSE nd[n]]

RECURSIVE CollectFrom(_, _, _, _)
\* the outer loop of main.rs:67-84 over the members, in path order, from member i
CollectFrom(i, nd, members, workspace_dependencies) ==
    IF i > Len(members) THEN nd
    ELSE CollectFrom(i + 1, PushMember(nd, members[i], workspace_dependencies),
                     members, workspace_dependencies)

\* the match of unify_dependencies' loop body: one element merged into acc
MergeInto(acc, dependency) ==
    CASE acc.kind \in {"Simple", "Detailed"} /\ dependency.kind = "Simple" ->
            merge_simple(acc, Unwrap(dependency.version))
      [] acc.kind \in {"Simple", "Detailed"} /\ dependency.kind = "Detailed" ->
            merge_detailed(acc, [version |-> dependency.version,
                                 attrs |-> dependency.attrs])
      [] OTHER -> Panic

RECURSIVE FoldMerge(_, _)
\* the loop of dependencies.rs:101-120 over what is left of the vector
FoldMerge(acc, rest) ==
    IF rest = <<>> THEN acc
    ELSE IF MergeInto(acc, Head(rest)).kind = "Panic" THEN Panic
    ELSE FoldMerge(MergeInto(acc, Head(rest)), Tail(rest))

\* one name of unify_dependencies: acc is the popped last element, the others
\* are folded into it first to last
UnifyOne(dependencies) ==
    FoldMerge(dependencies[Len(dependencies)],
              SubSeq(dependencies, 1, Len(dependencies) - 1))

\* unify_dependencies: the table, or a panic when the fold of some name panics
unify_dependencies(tree) ==
    IF \E n \in DOMAIN tree : UnifyOne(tree[n]).kind = "Panic"
    THEN [ok |-> FALSE, table |-> <<>>]
    ELSE [ok |-> TRUE, table |-> [n \in DOMAIN tree |-> UnifyOne(tree[n])]]

\* main.rs:121-151: one entry of a member's table whose name is found in the
\* unified table; PanicEntry for expect("version should exist") and
\* unimplemented!.  value.get_mut("version") on a table-like item is never None:
\* toml_edit's index_mut makes the missing key (entry(..).or_insert(Item::None))
\* and returns it, so an entry without a version sub-field gains one.
PatchEntry(value, dep) ==
    IF value.shape = "str" THEN
        CASE dep.kind = "Simple" -> StrEntry(Unwrap(dep.version))
          [] dep.kind = "Detailed" ->
                IF IsSome(dep.version) THEN StrEntry(Unwrap(dep.version)) ELSE PanicEntry
          [] OTHER -> value
    ELSE IF value.shape = "table" THEN
        CASE dep.kind = "Simple" -> [value EXCEPT !.version = dep.version]
          [] dep.kind = "Detailed" ->
                IF IsSome(dep.version) THEN [value EXCEPT !.version = dep.version]
                ELSE PanicEntry
          [] OTHER -> value
    ELSE PanicEntry

\* main.rs:120: unified_new_dependencies.get(name.display_repr()): the key as the
\* file writes it is looked up; a key written in quotes keeps its quotes and is
\* the name of no package
LookupDisplayRepr(table, n, value) ==
    IF ~value.quoted /\ n \in DOMAIN table THEN Some(table[n]) ELSE None

\* main.rs:119-153: the table of a member with every entry patched
PatchTable(deps, table) ==
    [n \in DOMAIN deps |->
        IF IsSome(LookupDisplayRepr(table, n, deps[n]))
        THEN PatchEntry(deps[n], Unwrap(LookupDisplayRepr(table, n, deps[n])))
        ELSE deps[n]]

\* main.rs:93-107: the unified entries inserted into [workspace.dependencies],
\* when the root document has it as a standard table (as_table_mut)
PatchRootDoc(doc, table) ==
    IF doc.hasWorkspace /\ doc.hasDeps /\ ~doc.inline
    THEN [doc EXCEPT !.deps =
            [n \in DOMAIN doc.deps \cup DOMAIN table |->
                IF n \in DOMAIN table THEN Serialize(table[n]) ELSE doc.deps[n]]]
    ELSE doc

----------------------------------------------------------------------------
(* The merge harness: merge_simple, merge_detailed and simplify applied to *)
(* dependencies drawn from bounded sets, one after the other.              *)

V_1_0_0 == <<"1", ".", "0", ".", "0">>
V_1_9_0 == <<"1", ".", "9", ".", "0">>
V_2_0_0 == <<"2", ".", "0", ".", "0">>
V_Caret_1_0_0 == <<"^", "1", ".", "0", ".", "0">>
V_Star == <<"*">>
V_Range == <<">", "=", "1", ".", "2", ",", " ", "<", "2">>
V_Twice == <<"1", ".", "0", ".", "0", ",", "1", ".", "0", ".", "0">>
V_Invalid == <<"0", "1">>
V_Pre == <<"1", ".", "0", ".", "0", "-", "r", "c", ".", "1">>
V_Build == <<"1", ".", "0", ".", "0", "+", "b">>

\* the constraint strings the harness draws
HarnessVersions ==
    {V_1_0_0, V_1_9_0, V_Caret_1_0_0, V_Star, V_Range, V_Twice, V_Invalid, V_Pre, V_Build}

\* the constraint strings merged into a dependency
MergedVersions == {V_1_0_0, V_1_9_0, V_2_0_0}

\* the non-version fields of a DependencyDetail, opaque
AttrValues == {DefaultAttrs, "features=x", "path=p"}

HarnessDetails ==
    [version : {None} \cup {Some(v) : v \in MergedVersions}, attrs : AttrValues]

HarnessDependencies ==
    {Simple(v) : v \in HarnessVersions}
    \cup {Detailed(d.version, d.attrs) :
             d \in [version : {None} \cup {Some(v) : v \in HarnessVersions},
                    attrs : AttrValues]}
    \cup {Inherited}

NoArg == [version |-> None, attrs |-> DefaultAttrs]
NoDoc == [exists |-> FALSE, hasWorkspace |-> FALSE, hasDeps |-> FALSE, inline |-> FALSE,
          deps |-> <<>>]

HarnessInit ==
    /\ cur \in HarnessDependencies
    /\ prev = cur
    /\ arg = NoArg
    /\ op = "init"
    /\ steps = 0
    /\ pc = "harness"
    /\ disk = <<>>
    /\ disk0 = <<>>
    /\ manifests = <<>>
    /\ new_dependencies = <<>>
    /\ unified = <<>>
    /\ editable = NoDoc
    /\ idx = 0

\* original.merge_simple(version)
MergeSimple ==
    /\ pc = "harness" /\ steps < MaxSteps /\ cur.kind # "Panic"
    /\ \E v \in MergedVersions :
          /\ cur' = merge_simple(cur, v)
          /\ arg' = [version |-> Some(v), attrs |-> DefaultAttrs]
    /\ prev' = cur
    /\ op' = "merge_simple"
    /\ steps' = steps + 1
    /\ UNCHANGED runVars

\* original.merge_detailed(Box::new(details))
MergeDetailed ==
    /\ pc = "harness" /\ steps < MaxSteps /\ cur.kind # "Panic"
    /\ \E d \in HarnessDetails :
          /\ cur' = merge_detailed(cur, d)
          /\ arg' = d
    /\ prev' = cur
    /\ op' = "merge_detailed"
    /\ steps' = steps + 1
    /\ UNCHANGED runVars

\* dependency.simplify()
Simplify ==
    /\ pc = "harness" /\ steps < MaxSteps /\ cur.kind # "Panic"
    /\ cur' \in simplify(cur)
    /\ arg' = NoArg
    /\ prev' = cur
    /\ op' = "simplify"
    /\ steps' = steps + 1
    /\ UNCHANGED runVars

HarnessNext == MergeSimple \/ MergeDetailed \/ Simplify

MergeSpec == HarnessInit /\ [][HarnessNext]_vars

----------------------------------------------------------------------------
(* A run of consolidate on a workspace drawn from bounded sets.            *)

V_1_0 == <<"1", ".", "0">>
V_1_0_5 == <<"1", ".", "0", ".", "5">>

\* the package names; a BTreeMap iterates them in this order
Names == {"a", "b"}

\* what a member can declare for a name; "b" is drawn from fewer shapes
MemberEntries(n) ==
    IF n = "a"
    THEN {StrEntry(V_1_0), StrEntry(V_1_0_5), QuotedKey(StrEntry(V_1_0)),
          TableEntry(Some(V_1_0), "features=x"), TableEntry(None, "path=p"),
          InheritedEntry}
    ELSE {StrEntry(V_1_0), TableEntry(None, "path=p")}

\* the [dependencies] tables over the names in S
MemberTables(S) ==
    {d \in [S -> UNION {MemberEntries(n) : n \in S}] :
        \A n \in S : d[n] \in MemberEntries(n)}

\* the documents a member file can hold: none, one without [dependencies], one
\* whose [dependencies] declares some of the names, or one that writes
\* dependencies = { a = "1.0" } inline
MemberDocs ==
    {NoDoc}
    \cup {[exists |-> TRUE, hasWorkspace |-> FALSE, hasDeps |-> FALSE, inline |-> FALSE,
           deps |-> <<>>]}
    \cup {[exists |-> TRUE, hasWorkspace |-> FALSE, hasDeps |-> TRUE, inline |-> FALSE,
           deps |-> d] :
             d \in UNION {MemberTables(S) : S \in SUBSET Names}}
    \cup {[exists |-> TRUE, hasWorkspace |-> FALSE, hasDeps |-> TRUE, inline |-> TRUE,
           deps |-> [n \in {"a"} |-> StrEntry(V_1_0)]]}

\* the root documents: without [workspace], without [workspace.dependencies],
\* with the table empty, with the table declaring "a", and with the table
\* written inline and declaring "b"
RootDocs ==
    {[exists |-> TRUE, hasWorkspace |-> FALSE, hasDeps |-> FALSE, inline |-> FALSE,
      deps |-> <<>>],
     [exists |-> TRUE, hasWorkspace |-> TRUE, hasDeps |-> FALSE, inline |-> FALSE,
      deps |-> <<>>],
     [exists |-> TRUE, hasWorkspace |-> TRUE, hasDeps |-> TRUE, inline |-> FALSE,
      deps |-> <<>>],
     [exists |-> TRUE, hasWorkspace |-> TRUE, hasDeps |-> TRUE, inline |-> FALSE,
      deps |-> [n \in {"a"} |-> StrEntry(V_2_0_0)]],
     [exists |-> TRUE, hasWorkspace |-> TRUE, hasDeps |-> TRUE, inline |-> TRUE,
      deps |-> [n \in {"b"} |-> StrEntry(V_2_0_0)]]}

Init ==
    /\ pc = "start"
    /\ disk \in [root : RootDocs, test : {NoDoc}, members : [1..NumMembers -> MemberDocs]]
    /\ disk0 = disk
    /\ manifests = <<>>
    /\ new_dependencies = <<>>
    /\ unified = <<>>
    /\ editable = NoDoc
    /\ idx = 0
    /\ cur = Panic
    /\ prev = Panic
    /\ arg = NoArg
    /\ op = "run"
    /\ steps = 0

\* main.rs:57-62: the workspace section is required, and read_members reads the
\* manifest of every member; a member file that cannot be read ends the run
ReadMembers ==
    /\ pc = "start"
    /\ IF disk.root.hasWorkspace /\ \A i \in 1..NumMembers : disk.members[i].exists
       THEN /\ manifests' = [i \in 1..NumMembers |-> ManifestDependencies(disk.members[i])]
            /\ pc' = "collect"
       ELSE /\ pc' = "aborted"
            /\ UNCHANGED manifests
    /\ UNCHANGED <<disk, disk0, new_dependencies, unified, editable, idx>>
    /\ UNCHANGED harnessVars

\* main.rs:66-84
Collect ==
    /\ pc = "collect"
    /\ new_dependencies' =
          CollectFrom(1, <<>>, manifests, ManifestDependencies(disk.root))
    /\ pc' = "unify"
    /\ UNCHANGED <<disk, disk0, manifests, unified, editable, idx>>
    /\ UNCHANGED harnessVars

\* main.rs:85
Unify ==
    /\ pc = "unify"
    /\ IF unify_dependencies(new_dependencies).ok
       THEN /\ unified' = unify_dependencies(new_dependencies).table
            /\ pc' = "simplify"
       ELSE /\ pc' = "aborted"
            /\ UNCHANGED unified
    /\ UNCHANGED <<disk, disk0, manifests, new_dependencies, editable, idx>>
    /\ UNCHANGED harnessVars

\* main.rs:86-88: every unified dependency simplified; a panic of one ends the run
SimplifyAll ==
    /\ pc = "simplify"
    /\ IF \E n \in DOMAIN unified : Panic \in simplify(unified[n])
       THEN /\ pc' = "aborted"
            /\ UNCHANGED unified
       ELSE /\ unified' \in {f \in [DOMAIN unified -> UNION {simplify(unified[n]) :
                                                               n \in DOMAIN unified}] :
                                \A n \in DOMAIN unified : f[n] \in simplify(unified[n])}
            /\ pc' = "patch_root"
    /\ UNCHANGED <<disk, disk0, manifests, new_dependencies, editable, idx>>
    /\ UNCHANGED harnessVars

\* main.rs:90-107: the root document read, parsed and patched in memory
PatchRoot ==
    /\ pc = "patch_root"
    /\ editable' = PatchRootDoc(disk.root, unified)
    /\ pc' = "members"
    /\ idx' = 0
    /\ UNCHANGED <<disk, disk0, manifests, new_dependencies, unified>>
    /\ UNCHANGED harnessVars

\* main.rs:109-156, one iteration: the member's file read, parsed, patched and
\* written; a missing [dependencies], one that is no standard table
\* (as_table_mut().expect) or a panic of an entry ends the run
PatchMember ==
    /\ pc = "members"
    /\ idx < NumMembers
    /\ LET member == disk.members[idx + 1]
           patched == PatchTable(member.deps, unified)
       IN
       IF member.exists /\ member.hasDeps /\ ~member.inline
          /\ \A n \in DOMAIN patched : patched[n] # PanicEntry
       THEN /\ disk' = [disk EXCEPT !.members[idx + 1].deps = patched]
            /\ idx' = idx + 1
            /\ pc' = "members"
       ELSE /\ pc' = "aborted"
            /\ UNCHANGED <<disk, idx>>
    /\ UNCHANGED <<disk0, manifests, new_dependencies, unified, editable>>
    /\ UNCHANGED harnessVars

\* main.rs:158: the root document written to the file "test"
WriteRoot ==
    /\ pc = "members"
    /\ idx = NumMembers
    /\ disk' = [disk EXCEPT !.test = editable]
    /\ pc' = "done"
    /\ UNCHANGED <<disk0, manifests, new_dependencies, unified, editable, idx>>
    /\ UNCHANGED harnessVars

Next ==
    \/ ReadMembers
    \/ Collect
    \/ Unify
    \/ SimplifyAll
    \/ PatchRoot
    \/ PatchMember
    \/ WriteRoot

Spec == Init /\ [][Next]_vars

----------------------------------------------------------------------------
(* Claims about the merge operations, under MergeSpec *)

HasVersion(d) == d.kind \in {"Simple", "Detailed"} /\ IsSome(d.version)

\* C5: merge_simple on a spec that has a version s keeps the variant and the
\* non-version attributes of self and sets the version to s, then ", ", then v.
C5_MergeSimpleAppends ==
    (op = "merge_simple" /\ HasVersion(prev)) =>
        /\ cur.kind = prev.kind
        /\ cur.attrs = prev.attrs
        /\ cur.version = Some(Unwrap(prev.version) \o <<",", " ">> \o Unwrap(arg.version))

\* the second unit test: Detailed{version: Some("1.0.0")} merged with "1.9.0",
\* here with attributes that must survive
C5_Witness ==
    /\ op = "merge_simple"
    /\ prev = Detailed(Some(V_1_0_0), "features=x")
    /\ arg.version = Some(V_1_9_0)
    /\ cur = Detailed(Some(<<"1", ".", "0", ".", "0", ",", " ", "1", ".", "9", ".", "0">>),
                      "features=x")

\* C6 as claimed: merge_detailed on Simple(s) yields a Detailed spec with the
\* incoming detail's attributes whose version is s, ", ", detail.version when the
\* detail has a version, and s itself when it has none.
C6_SimpleBecomesDetailed ==
    (op = "merge_detailed" /\ prev.kind = "Simple") =>
        /\ cur.kind = "Detailed"
        /\ cur.attrs = arg.attrs
        /\ cur.version =
              IF IsSome(arg.version)
              THEN Some(Unwrap(prev.version) \o <<",", " ">> \o Unwrap(arg.version))
              ELSE prev.version

\* C7: merge_detailed on a Detailed self never changes self's non-version
\* attributes; the version becomes the incoming one when self has none, self's
\* then ", " then the incoming one when both have one, and stays when the
\* incoming detail has none.
C7_DetailedKeepsAttributes ==
    (op = "merge_detailed" /\ prev.kind = "Detailed") =>
        /\ cur.kind = "Detailed"
        /\ cur.attrs = prev.attrs
        /\ (~IsSome(prev.version) /\ IsSome(arg.version)) => cur.version = arg.version
        /\ (IsSome(prev.version) /\ IsSome(arg.version)) =>
              cur.version = Some(Unwrap(prev.version) \o <<",", " ">> \o Unwrap(arg.version))
        /\ ~IsSome(arg.version) => cur.version = prev.version

\* both with a version, and attributes that differ between self and the detail
C7_Witness ==
    /\ op = "merge_detailed"
    /\ prev = Detailed(Some(V_1_0_0), "features=x")
    /\ arg = [version |-> Some(V_2_0_0), attrs |-> "path=p"]
    /\ cur.attrs = "features=x"
    /\ cur.version = Some(<<"1", ".", "0", ".", "0", ",", " ", "2", ".", "0", ".", "0">>)

IsValid(version) == IsSome(VersionReqParse(version))
Comparators(version) == Unwrap(VersionReqParse(version))
NoDuplicates(seq) == \A i, j \in DOMAIN seq : seq[i] = seq[j] => i = j

\* C10: simplify on a spec whose version is a valid constraint leaves a valid
\* constraint whose comparators have no duplicates, are as a set the comparators
\* of the input, and are as many as the distinct comparators of the input; the
\* variant and the attributes stay, and a Detailed spec with no version is left
\* unchanged.
C10_SimplifyDeduplicates ==
    /\ (op = "simplify" /\ HasVersion(prev) /\ IsValid(Unwrap(prev.version))) =>
          /\ cur.kind = prev.kind
          /\ cur.attrs = prev.attrs
          /\ IsSome(cur.version)
          /\ IsValid(Unwrap(cur.version))
          /\ NoDuplicates(Comparators(Unwrap(cur.version)))
          /\ Range(Comparators(Unwrap(cur.version)))
                = Range(Comparators(Unwrap(prev.version)))
          /\ Len(Comparators(Unwrap(cur.version)))
                = Cardinality(Range(Comparators(Unwrap(prev.version))))
    /\ (op = "simplify" /\ prev.kind = "Detailed" /\ ~IsSome(prev.version)) => cur = prev

\* a merged constraint that names one comparator twice and another once, simplified
C10_Witness ==
    /\ op = "simplify"
    /\ HasVersion(prev)
    /\ IsValid(Unwrap(prev.version))
    /\ Len(Comparators(Unwrap(prev.version))) = 3
    /\ Len(Comparators(Unwrap(cur.version))) = 2

----------------------------------------------------------------------------
(* Claims about a run of consolidate, under Spec *)

\* C1 as claimed: if the run aborts at any step, every file on disk is still as
\* it was before the run.
C1_AbortLeavesDiskUntouched ==
    pc = "aborted" => disk = disk0

\* the members that declare name n as a bare constraint string
BareMembers(n) ==
    {i \in 1..NumMembers :
        /\ disk0.members[i].hasDeps
        /\ n \in DOMAIN disk0.members[i].deps
        /\ disk0.members[i].deps[n].shape = "str"}

\* C2 as claimed: when two or more members declare a name as bare strings and the
\* root's shared table does not have it, then after a successful run the root
\* config file's shared table has the name with the merged constraint, each of
\* those members' entries is that constraint string, and no other key of the root
\* or of a member changed.
C2_EndToEnd ==
    pc = "done" =>
        \A n \in Names :
            (Cardinality(BareMembers(n)) >= 2 /\ n \notin DOMAIN disk0.root.deps) =>
                /\ n \in DOMAIN disk.root.deps
                /\ disk.root.deps[n].version = unified[n].version
                /\ \A i \in BareMembers(n) :
                      disk.members[i].deps[n] = StrEntry(Unwrap(unified[n].version))
                /\ \A k \in DOMAIN disk0.root.deps : disk.root.deps[k] = disk0.root.deps[k]
                /\ \A i \in 1..NumMembers :
                      \A k \in DOMAIN disk0.members[i].deps \ DOMAIN unified :
                          disk.members[i].deps[k] = disk0.members[i].deps[k]

\* C3 as claimed: after unify_dependencies, before simplification, every version
\* constraint declared by a spec in the list of a name is a comma-joined term of
\* the version of the merged spec of that name.
C3_NoConstraintDiscarded ==
    pc = "simplify" =>
        \A n \in DOMAIN new_dependencies :
            \A i \in DOMAIN new_dependencies[n] :
                IsSome(new_dependencies[n][i].version) =>
                    /\ IsSome(unified[n].version)
                    /\ Unwrap(new_dependencies[n][i].version)
                          \in Range(SplitTerms(Unwrap(unified[n].version), <<>>))

\* the names some member's [dependencies] declares
DeclaredNames ==
    UNION {IF disk0.members[i].hasDeps THEN DOMAIN disk0.members[i].deps ELSE {} :
              i \in 1..NumMembers}

\* the names the root's shared table declares
RootNames == IF disk0.root.hasDeps THEN DOMAIN disk0.root.deps ELSE {}

\* C4: the keys of the UnifiedTable are exactly the names that some member
\* declares and the root does not; no name of the root is in it.
C4_UnifiedKeys ==
    pc \in {"simplify", "patch_root", "members", "done"} =>
        /\ DOMAIN unified = DeclaredNames \ RootNames
        /\ DOMAIN unified \cap RootNames = {}

\* the root declares "a", members declare "a" and "b": only "b" is unified
C4_Witness ==
    /\ pc = "simplify"
    /\ RootNames = {"a"}
    /\ DeclaredNames = {"a", "b"}
    /\ DOMAIN unified = {"b"}
    /\ Len(new_dependencies["b"]) = NumMembers

\* C8 as claimed: whenever the list of some name holds an Inherited spec, the
\* Unifier fails and returns no table, so no Inherited spec is a UnifiedTable entry.
C8_InheritedNeverUnified ==
    pc = "simplify" =>
        /\ \A n \in DOMAIN new_dependencies :
              \A i \in DOMAIN new_dependencies[n] :
                  new_dependencies[n][i].kind # "Inherited"
        /\ \A n \in DOMAIN unified : unified[n].kind # "Inherited"

\* what the claim says entry e of a member becomes under the unified table
ExpectedEntry(n, e) ==
    IF n \notin DOMAIN unified THEN e
    ELSE IF e.shape = "str" THEN StrEntry(Unwrap(unified[n].version))
    ELSE IF IsSome(e.version)
         THEN TableEntry(unified[n].version, e.attrs)
         ELSE e

\* C9 as claimed: a member document the run has written differs from the one
\* read only in entries whose name is in the UnifiedTable: a bare string is
\* replaced by the unified constraint string, a table-like entry has its version
\* sub-field replaced and its other sub-fields kept, a table-like entry with no
\* version is unchanged; a member not written yet is unchanged.
C9_PatchChangesOnlyUnified ==
    pc \in {"members", "done", "aborted"} =>
        \A i \in 1..NumMembers :
            IF i <= idx
            THEN /\ disk.members[i].exists /\ disk.members[i].hasDeps
                 /\ DOMAIN disk.members[i].deps = DOMAIN disk0.members[i].deps
                 /\ \A n \in DOMAIN disk0.members[i].deps :
                       /\ disk.members[i].deps[n] = ExpectedEntry(n, disk0.members[i].deps[n])
                       /\ disk.members[i].deps[n].workspace
                             = disk0.members[i].deps[n].workspace
            ELSE disk.members[i] = disk0.members[i]

====
